---- MODULE Spec2Model ----
(***************************************************************************)
(* Model of src/main.py: the document-to-codebook pipeline.                *)
(*                                                                         *)
(* Texts are sequences of characters (one-character strings).  The two     *)
(* regular-expression helpers, the JSON decoding of the response, the row  *)
(* building loop and the main loop are modelled from the source.           *)
(***************************************************************************)
EXTENDS Integers, Sequences, FiniteSets, TLC

VARIABLES
    items,      \* main: the listing, a sequence of display names (item['name'])
    pc,         \* main: position of the control flow
    i,          \* main: index (1-based) of the document the for loop is at
    content,    \* main: content, the text of the document being processed
    analysis,   \* main: analysis, the raw response of the analysis service
    parsed,     \* main: outcome of the try block of lines 125-128
    codebook,   \* main: codebook, sheet name -> table
    printedRaw, \* what line 131 printed ("Contenu brut recu"), NoText if nothing
    written,    \* whether the ExcelWriter block of lines 152-154 ran
    reads,      \* history: number of read_docx_file_content calls
    calls,      \* history: document indices analyze_document was called for
    outcomes,   \* history: outcome of each document the loop has finished with
    stored,     \* history: the (name, table) pairs assigned at line 148, in order
    text,       \* text functions: the input text
    op,         \* text functions: the set of operations already applied to text
    outExtract, \* text functions: result of extract_json(text)
    outClean,   \* text functions: result of clean_json_string(text)
    outEC,      \* text functions: clean_json_string(extract_json(text))
    outCE,      \* text functions: extract_json(clean_json_string(text))
    payload,    \* row building: the decoded value handed to the loop of line 137
    df_rows     \* row building: df_rows for payload, once the loop has run

pipeVars == <<items, pc, i, content, analysis, parsed, codebook, printedRaw,
              written, reads, calls, outcomes, stored>>
textVars == <<text, op, outExtract, outClean, outEC, outCE>>
buildVars == <<payload, df_rows>>
vars == <<items, pc, i, content, analysis, parsed, codebook, printedRaw,
          written, reads, calls, outcomes, stored,
          text, op, outExtract, outClean, outEC, outCE, payload, df_rows>>

---------------------------------------------------------------------------
(* Characters *)

LF  == "\n"
BSL == "\\"
QT  == "\""
SP  == " "
TAB == "\t"
CR  == "\r"

Min(S) == CHOOSE x \in S : \A y \in S : x <= y
Max(S) == CHOOSE x \in S : \A y \in S : x >= y

---------------------------------------------------------------------------
(* clean_json_string: re.sub(r'(?<!\\)\n', ' ', json_str) *)

\* The pattern (?<!\\)\n at position p of s: a newline whose predecessor in s,
\* if any, is not a backslash.
NewlineAnywhere(s, p) == s[p] = LF
UnescapedNewlineAt(s, p) == s[p] = LF /\ ~(p > 1 /\ s[p - 1] = BSL)

\* re.sub replaces every match, here a single character, by the replacement
\* and copies the other characters.
clean_json_string(json_str) ==
    [p \in 1..Len(json_str) |->
        IF UnescapedNewlineAt(json_str, p) THEN SP ELSE json_str[p]]

---------------------------------------------------------------------------
(* extract_json: re.search(r"\{.*\}", text, re.DOTALL) *)

\* A result of a call that may raise: ok, or the exception.
Ok(v)  == [ok |-> TRUE, val |-> v]
Raised == [ok |-> FALSE, val |-> <<>>]

\* re.DOTALL: the dot matches every character, the newline included.
DotNoNewline(c) == c # LF
DotMatches(c) == TRUE

\* The ends j of the matches of \{.*\} that start at position p.
MatchEnds(s, p) ==
    IF s[p] # "{" THEN {}
    ELSE {j \in (p + 1)..Len(s) :
            s[j] = "}" /\ \A m \in (p + 1)..(j - 1) : DotMatches(s[m])}

\* .* is greedy: of the possible ends the regex engine takes the furthest.
LazyEnd(ends) == Min(ends)
GreedyEnd(ends) == Max(ends)

\* re.search tries the start positions from the left and stops at the first
\* one that matches.
RightmostStart(starts) == Max(starts)
LeftmostStart(starts) == Min(starts)

\* Lines 42-46: the match, or ValueError when there is none.
extract_json(s) ==
    LET starts == {p \in 1..Len(s) : MatchEnds(s, p) # {}}
    IN  IF starts = {} THEN Raised
        ELSE LET p == LeftmostStart(starts)
             IN  Ok(SubSeq(s, p, GreedyEnd(MatchEnds(s, p))))

---------------------------------------------------------------------------
(* json.loads (line 128): the decoder of Python's json module, for the      *)
(* characters the modelled texts are made of.  Values are tagged records.   *)

StrV(chars)  == [k |-> "str", chars |-> chars]
NumV(digits) == [k |-> "num", digits |-> digits]
LitV(name)   == [k |-> "lit", name |-> name]
ArrV(elems)  == [k |-> "arr", elems |-> elems]
ObjV(pairs)  == [k |-> "obj", pairs |-> pairs]

\* A decoding step: the value and the position after it, or the failure
\* (json.JSONDecodeError).
At(v, p) == [ok |-> TRUE, val |-> v, pos |-> p]
Bad      == [ok |-> FALSE, val |-> <<>>, pos |-> 0]

JsonWhitespace == {SP, LF, TAB, CR}
Digits == {"0", "1", "2", "3", "4", "5", "6", "7", "8", "9"}

RECURSIVE SkipWs(_, _)
SkipWs(s, p) ==
    IF p <= Len(s) /\ s[p] \in JsonWhitespace THEN SkipWs(s, p + 1) ELSE p

\* The character an escape sequence \c stands for (the \uXXXX form is not
\* part of the modelled texts).
Escapes == {QT, BSL, "/", "b", "f", "n", "r", "t"}
Unescape(c) ==
    CASE c = "n" -> LF
      [] c = "t" -> TAB
      [] c = "r" -> CR
      [] OTHER -> c

\* py_scanstring, strict: from the character after the opening quote.  A raw
\* control character or an invalid escape fails.
RECURSIVE ScanString(_, _, _)
ScanString(s, p, acc) ==
    IF p > Len(s) THEN Bad
    ELSE IF s[p] = QT THEN At(StrV(acc), p + 1)
    ELSE IF s[p] = BSL THEN
        IF p + 1 <= Len(s) /\ s[p + 1] \in Escapes
        THEN ScanString(s, p + 2, Append(acc, Unescape(s[p + 1])))
        ELSE Bad
    ELSE IF s[p] \in {LF, TAB, CR} THEN Bad
    ELSE ScanString(s, p + 1, Append(acc, s[p]))

\* NUMBER_RE, integer part: 0, or a non-zero digit followed by digits.  (No
\* modelled text puts a sign, a fraction or an exponent after a digit.)
RECURSIVE ScanDigits(_, _)
ScanDigits(s, p) ==
    IF p <= Len(s) /\ s[p] \in Digits THEN ScanDigits(s, p + 1) ELSE p

ScanNumber(s, p) ==
    IF s[p] = "0" THEN At(NumV(<<"0">>), p + 1)
    ELSE LET e == ScanDigits(s, p) IN At(NumV(SubSeq(s, p, e - 1)), e)

ScanLiteral(s, p, lit) ==
    IF p + Len(lit) - 1 <= Len(s) /\ SubSeq(s, p, p + Len(lit) - 1) = lit
    THEN At(LitV(lit), p + Len(lit))
    ELSE Bad

RECURSIVE ScanOnce(_, _), ScanArray(_, _, _), ScanObject(_, _, _)

\* scan_once: the value that starts exactly at position p.
ScanOnce(s, p) ==
    IF p > Len(s) THEN Bad
    ELSE CASE s[p] = QT -> ScanString(s, p + 1, <<>>)
           [] s[p] = "{" ->
                LET q == SkipWs(s, p + 1)
                IN  IF q > Len(s) THEN Bad
                    ELSE IF s[q] = "}" THEN At(ObjV(<<>>), q + 1)
                    ELSE ScanObject(s, q, <<>>)
           [] s[p] = "[" ->
                LET q == SkipWs(s, p + 1)
                IN  IF q > Len(s) THEN Bad
                    ELSE IF s[q] = "]" THEN At(ArrV(<<>>), q + 1)
                    ELSE ScanArray(s, q, <<>>)
           [] s[p] = "n" -> ScanLiteral(s, p, <<"n", "u", "l", "l">>)
           [] s[p] = "t" -> ScanLiteral(s, p, <<"t", "r", "u", "e">>)
           [] s[p] = "f" -> ScanLiteral(s, p, <<"f", "a", "l", "s", "e">>)
           [] s[p] \in Digits -> ScanNumber(s, p)
           [] OTHER -> Bad

\* JSONArray: p is where the next element must start.
ScanArray(s, p, acc) ==
    LET v == ScanOnce(s, p)
    IN  IF ~v.ok THEN Bad
        ELSE LET q == SkipWs(s, v.pos)
             IN  IF q > Len(s) THEN Bad
                 ELSE IF s[q] = "]" THEN At(ArrV(Append(acc, v.val)), q + 1)
                 ELSE IF s[q] = "," THEN
                     ScanArray(s, SkipWs(s, q + 1), Append(acc, v.val))
                 ELSE Bad

\* JSONObject: p is where the next key's opening quote must be.
ScanObject(s, p, acc) ==
    IF p > Len(s) \/ s[p] # QT THEN Bad
    ELSE LET key == ScanString(s, p + 1, <<>>)
         IN  IF ~key.ok THEN Bad
             ELSE LET c == SkipWs(s, key.pos)
                  IN  IF c > Len(s) \/ s[c] # ":" THEN Bad
                      ELSE LET v == ScanOnce(s, SkipWs(s, c + 1))
                           IN  IF ~v.ok THEN Bad
                               ELSE LET q == SkipWs(s, v.pos)
                                        more == Append(acc, <<key.val.chars, v.val>>)
                                    IN  IF q > Len(s) THEN Bad
                                        ELSE IF s[q] = "}" THEN At(ObjV(more), q + 1)
                                        ELSE IF s[q] = "," THEN
                                            ScanObject(s, SkipWs(s, q + 1), more)
                                        ELSE Bad

\* JSONDecoder.decode: leading whitespace, one value, trailing whitespace,
\* and nothing else ("Extra data" otherwise).
json_loads(s) ==
    LET v == ScanOnce(s, SkipWs(s, 1))
    IN  IF v.ok /\ SkipWs(s, v.pos) = Len(s) + 1 THEN Ok(v.val) ELSE Raised

---------------------------------------------------------------------------
(* The row building loop of main, lines 136-147 *)

K_themes    == <<"t", "h", "e", "m", "e", "s">>
K_theme     == <<"t", "h", "e", "m", "e">>
K_codages   == <<"c", "o", "d", "a", "g", "e", "s">>
K_verbatims == <<"v", "e", "r", "b", "a", "t", "i", "m", "s">>

\* dict.get(key, default) on a decoded object; of a repeated key the decoder
\* keeps the last value.
DictGet(d, key, default) ==
    LET hits == {n \in 1..Len(d.pairs) : d.pairs[n][1] = key}
    IN  IF hits = {} THEN default ELSE d.pairs[Max(hits)][2]

\* The keys of a dict in iteration order (the order of first insertion).
DictKeys(d) ==
    LET first == {n \in 1..Len(d.pairs) :
                    \A m \in 1..(n - 1) : d.pairs[m][1] # d.pairs[n][1]}
        RECURSIVE Pick(_)
        Pick(n) == IF n > Len(d.pairs) THEN <<>>
                   ELSE IF n \in first THEN <<StrV(d.pairs[n][1])>> \o Pick(n + 1)
                   ELSE Pick(n + 1)
    IN  Pick(1)

\* What a for loop or zip() can iterate over: a list, a str (its
\* characters), a dict (its keys).  Anything else raises TypeError.
Iterable(v) == v.k \in {"arr", "str", "obj"}
Iter(v) ==
    CASE v.k = "arr" -> v.elems
      [] v.k = "str" -> [n \in 1..Len(v.chars) |-> StrV(<<v.chars[n]>>)]
      [] v.k = "obj" -> DictKeys(v)

\* zip(codages, verbatims): stops as soon as either iterator is exhausted.
RECURSIVE ZipLongest(_, _)
ZipLongest(a, b) ==
    IF a = <<>> /\ b = <<>> THEN <<>>
    ELSE <<<<IF a = <<>> THEN LitV(<<"n", "u", "l", "l">>) ELSE Head(a),
             IF b = <<>> THEN LitV(<<"n", "u", "l", "l">>) ELSE Head(b)>>>>
         \o ZipLongest(IF a = <<>> THEN a ELSE Tail(a),
                       IF b = <<>> THEN b ELSE Tail(b))
RECURSIVE Zip(_, _)
Zip(a, b) ==
    IF a = <<>> \/ b = <<>> THEN <<>>
    ELSE <<<<Head(a), Head(b)>>>> \o Zip(Tail(a), Tail(b))

\* Lines 138-147 for one element of themes: the rows it appends, or the
\* exception (AttributeError: no .get; TypeError: zip of a non-iterable).
ThemeRows(theme) ==
    IF theme.k # "obj" THEN Raised
    ELSE LET th        == DictGet(theme, K_theme, StrV(<<>>))
             codages   == DictGet(theme, K_codages, ArrV(<<>>))
             verbatims == DictGet(theme, K_verbatims, ArrV(<<>>))
         IN  IF ~Iterable(codages) \/ ~Iterable(verbatims) THEN Raised
             ELSE LET z == Zip(Iter(codages), Iter(verbatims))
                  IN  Ok([n \in 1..Len(z) |->
                            [Theme |-> th, Coding |-> z[n][1], Verbatim |-> z[n][2]]])

\* The loop of line 137 over the remaining themes, df_rows being acc.
RECURSIVE RowsFrom(_, _)
RowsFrom(themes, acc) ==
    IF themes = <<>> THEN Ok(acc)
    ELSE LET r == ThemeRows(Head(themes))
         IN  IF ~r.ok THEN Raised ELSE RowsFrom(Tail(themes), acc \o r.val)

\* Lines 136-147: df_rows, or the uncaught exception.
BuildRows(data) ==
    IF data.k # "obj" THEN Raised
    ELSE LET themes == DictGet(data, K_themes, ArrV(<<>>))
         IN  IF ~Iterable(themes) THEN Raised ELSE RowsFrom(Iter(themes), <<>>)

\* The try block, lines 126-128: data, or the exception caught at line 129.
TryParse(raw) ==
    LET e == extract_json(raw)
    IN  IF ~e.ok THEN Raised ELSE json_loads(clean_json_string(e.val))

---------------------------------------------------------------------------
(* Inputs of a run: the listing, the document texts, the responses *)

MaxDocs == 3
SheetNameLen == 31

Stem == [n \in 1..SheetNameLen |-> "n"]

\* Display names: two longer than a sheet name that share their first 31
\* characters, and a short one.
Names == {Stem \o <<"x">>, Stem \o <<"y", "z">>, <<"s">>}

\* Document texts as read_docx_file_content returns them: no paragraph, blank
\* paragraphs, a paragraph of text.
Contents == {<<>>, <<SP, LF, SP>>, <<SP, "a", LF>>}

Q(s) == <<QT>> \o s \o <<QT>>
ThemeBlock(name, codages, verbatims) ==
    <<"{">> \o Q(K_theme) \o <<":">> \o name \o <<",">>
    \o Q(K_codages) \o <<":">> \o codages \o <<",">>
    \o Q(K_verbatims) \o <<":">> \o verbatims \o <<"}">>
Payload(themes) == <<"{">> \o Q(K_themes) \o <<":">> \o themes \o <<"}">>

\* Reasoning, then {"themes":[{"theme":"T","codages":["A","B"],
\* "verbatims":["q"]}]}, then a closing line.
RespProse ==
    <<"o", "k", LF>>
    \o Payload(<<"[">> \o ThemeBlock(Q(<<"T">>),
                          <<"[">> \o Q(<<"A">>) \o <<",">> \o Q(<<"B">>) \o <<"]">>,
                          <<"[">> \o Q(<<"q">>) \o <<"]">>) \o <<"]">>)
    \o <<LF, "e", "n", "d">>
\* Two themes: the first with no coding, the second with a verbatim broken
\* over two lines by a raw newline and one verbatim more than codings.
RespRawNewline ==
    Payload(<<"[">> \o ThemeBlock(Q(<<"T">>), <<"[", "]">>,
                                  <<"[">> \o Q(<<"q">>) \o <<"]">>)
            \o <<",", LF>>
            \o ThemeBlock(Q(<<"U">>), <<"[">> \o Q(<<"A">>) \o <<"]">>,
                          <<"[">> \o Q(<<"q", LF, "r">>) \o <<",">> \o Q(<<"s">>) \o <<"]">>)
            \o <<"]">>)
\* {"themes":[]}
RespNoThemes == Payload(<<"[", "]">>)
\* No brace at all.
RespNoJson == <<"n", "o", SP, "j", "s", "o", "n">>
\* {"themes":[],}
RespTrailingComma == <<"{">> \o Q(K_themes) \o <<":", "[", "]", ",", "}">>
\* A JSON object followed by prose that holds a closing brace.
RespBraceInProse == Payload(<<"[", "]">>) \o <<SP, "}">>
\* A backslash followed by a newline inside a string: left as it is by
\* clean_json_string, and no valid escape.
RespEscapedNewline ==
    Payload(<<"[">> \o ThemeBlock(Q(<<"T", BSL, LF>>), <<"[", "]">>, <<"[", "]">>)
            \o <<"]">>)
\* {"themes":5}
RespThemesNumber == Payload(<<"5">>)
Responses ==
    {RespProse, RespRawNewline, RespNoThemes, RespNoJson, RespTrailingComma,
     RespBraceInProse, RespEscapedNewline, RespThemesNumber}

RECURSIVE SeqsUpTo(_, _)
SeqsUpTo(S, n) ==
    IF n = 0 THEN {<<>>}
    ELSE LET shorter == SeqsUpTo(S, n - 1)
         IN  shorter \cup {Append(q, x) : q \in shorter, x \in S}

---------------------------------------------------------------------------
(* main, lines 99-156 *)

NoText == <<"(nothing)">>

\* str.strip(): the text without its leading and trailing whitespace.
PyWhitespace == {SP, LF, TAB, CR}
RECURSIVE LStrip(_)
LStrip(s) == IF s # <<>> /\ Head(s) \in PyWhitespace THEN LStrip(Tail(s)) ELSE s
RECURSIVE RStrip(_)
RStrip(s) ==
    IF s # <<>> /\ s[Len(s)] \in PyWhitespace
    THEN RStrip(SubSeq(s, 1, Len(s) - 1)) ELSE s
Strip(s) == RStrip(LStrip(s))

\* Line 118: not content.strip()
OnlyEmptyIsBlank(c) == c = <<>>
IsBlank(c) == Strip(c) = <<>>

\* item['name'][:31]
Truncate(name) ==
    SubSeq(name, 1, IF Len(name) < SheetNameLen THEN Len(name) ELSE SheetNameLen)

\* codebook[key] = table
SetDefault(cb, key, table) ==
    [x \in DOMAIN cb \cup {key} |-> IF x \in DOMAIN cb THEN cb[x] ELSE table]
SetItem(cb, key, table) ==
    [x \in DOMAIN cb \cup {key} |-> IF x = key THEN table ELSE cb[x]]

\* Where the for loop goes after document k: the next document, or the
\* writing of the spreadsheet once the listing is exhausted.
AfterDoc(k) == IF k < Len(items) THEN "read" ELSE "write"

\* The except clause, lines 129-132: return.
ExceptContinue(k) == [pc |-> AfterDoc(k), i |-> k + 1]
ExceptRetry(k) == [pc |-> "check", i |-> k]
ExceptHandler(k) == [pc |-> "aborted", i |-> k]

Init ==
    /\ items \in SeqsUpTo(Names, MaxDocs)
    /\ pc = "start"
    /\ i = 1
    /\ content = <<>>
    /\ analysis = <<>>
    /\ parsed = Raised
    /\ codebook = <<>>
    /\ printedRaw = NoText
    /\ written = FALSE
    /\ reads = 0
    /\ calls = <<>>
    /\ outcomes = <<>>
    /\ stored = <<>>
    /\ text = <<>>
    /\ op = {}
    /\ outExtract = Raised
    /\ outClean = <<>>
    /\ outEC = Raised
    /\ outCE = Raised
    /\ payload = ObjV(<<>>)
    /\ df_rows = Raised

\* Lines 110-114: an empty listing returns at once; otherwise the loop starts.
NoItems ==
    /\ pc = "start"
    /\ items = <<>>
    /\ pc' = "done"
    /\ UNCHANGED <<items, i, content, analysis, parsed, codebook, printedRaw,
                   written, reads, calls, outcomes, stored>>
    /\ UNCHANGED textVars
    /\ UNCHANGED buildVars

StartLoop ==
    /\ pc = "start"
    /\ items # <<>>
    /\ pc' = "read"
    /\ UNCHANGED <<items, i, content, analysis, parsed, codebook, printedRaw,
                   written, reads, calls, outcomes, stored>>
    /\ UNCHANGED textVars
    /\ UNCHANGED buildVars

\* Line 117: content = read_docx_file_content(...)
ReadDocument ==
    /\ pc = "read"
    /\ \E c \in Contents : content' = c
    /\ reads' = reads + 1
    /\ pc' = "check"
    /\ UNCHANGED <<items, i, analysis, parsed, codebook, printedRaw, written,
                   calls, outcomes, stored>>
    /\ UNCHANGED textVars
    /\ UNCHANGED buildVars

\* Lines 118-120: an empty document is reported and the loop continues.
SkipEmpty ==
    /\ pc = "check"
    /\ IsBlank(content)
    /\ outcomes' = Append(outcomes, "skipped")
    /\ i' = i + 1
    /\ pc' = AfterDoc(i)
    /\ UNCHANGED <<items, content, analysis, parsed, codebook, printedRaw,
                   written, reads, calls, stored>>
    /\ UNCHANGED textVars
    /\ UNCHANGED buildVars

\* Line 122: analysis = analyze_document(content), one chat completion.
Analyze ==
    /\ pc = "check"
    /\ ~IsBlank(content)
    /\ \E r \in Responses : analysis' = r
    /\ calls' = Append(calls, i)
    /\ pc' = "parse"
    /\ UNCHANGED <<items, i, content, parsed, codebook, printedRaw, written,
                   reads, outcomes, stored>>
    /\ UNCHANGED textVars
    /\ UNCHANGED buildVars

\* Line 122, the call raising (transport failure): nothing catches it.
AnalyzeRaises ==
    /\ pc = "check"
    /\ ~IsBlank(content)
    /\ calls' = Append(calls, i)
    /\ outcomes' = Append(outcomes, "transport")
    /\ pc' = "crashed"
    /\ UNCHANGED <<items, i, content, analysis, parsed, codebook, printedRaw,
                   written, reads, stored>>
    /\ UNCHANGED textVars
    /\ UNCHANGED buildVars

\* Lines 125-128, no exception.
ParseOk ==
    /\ pc = "parse"
    /\ TryParse(analysis).ok
    /\ parsed' = TryParse(analysis)
    /\ pc' = "build"
    /\ UNCHANGED <<items, i, content, analysis, codebook, printedRaw, written,
                   reads, calls, outcomes, stored>>
    /\ UNCHANGED textVars
    /\ UNCHANGED buildVars

\* Lines 125-132, an exception: the raw response is printed and main returns.
ParseFails ==
    /\ pc = "parse"
    /\ ~TryParse(analysis).ok
    /\ parsed' = Raised
    /\ printedRaw' = analysis
    /\ outcomes' = Append(outcomes, "malformed")
    /\ pc' = ExceptHandler(i).pc
    /\ i' = ExceptHandler(i).i
    /\ UNCHANGED <<items, content, analysis, codebook, written, reads, calls,
                   stored>>
    /\ UNCHANGED textVars
    /\ UNCHANGED buildVars

\* Lines 136-148, no exception: the table is stored under the sheet name.
BuildAndStore ==
    /\ pc = "build"
    /\ BuildRows(parsed.val).ok
    /\ codebook' = SetItem(codebook, Truncate(items[i]), BuildRows(parsed.val).val)
    /\ stored' = Append(stored, [name |-> items[i], table |-> BuildRows(parsed.val).val])
    /\ outcomes' = Append(outcomes, "stored")
    /\ i' = i + 1
    /\ pc' = AfterDoc(i)
    /\ UNCHANGED <<items, content, analysis, parsed, printedRaw, written, reads,
                   calls>>
    /\ UNCHANGED textVars
    /\ UNCHANGED buildVars

\* Lines 136-147, an exception: outside the try block, it ends the process.
BuildRaises ==
    /\ pc = "build"
    /\ ~BuildRows(parsed.val).ok
    /\ outcomes' = Append(outcomes, "crashed")
    /\ pc' = "crashed"
    /\ UNCHANGED <<items, i, content, analysis, parsed, codebook, printedRaw,
                   written, reads, calls, stored>>
    /\ UNCHANGED textVars
    /\ UNCHANGED buildVars

\* Lines 150-156: the codebook is written to codebook.xlsx.
WriteCodebook ==
    /\ pc = "write"
    /\ written' = TRUE
    /\ pc' = "done"
    /\ UNCHANGED <<items, i, content, analysis, parsed, codebook, printedRaw,
                   reads, calls, outcomes, stored>>
    /\ UNCHANGED textVars
    /\ UNCHANGED buildVars

Next ==
    \/ NoItems
    \/ StartLoop
    \/ ReadDocument
    \/ SkipEmpty
    \/ Analyze
    \/ AnalyzeRaises
    \/ ParseOk
    \/ ParseFails
    \/ BuildAndStore
    \/ BuildRaises
    \/ WriteCodebook

Spec == Init /\ [][Next]_vars

---------------------------------------------------------------------------
(* The two text functions applied to bounded texts *)

MaxTextLen == 4

TextAlphabet == {"{", "}", BSL, LF, "a"}

\* JSON objects embedded in prose: {"k":1}, {"k":{}}, and an object with a
\* newline between its tokens.
Prose == {<<>>, <<"a", SP>>, <<"a", "{">>, <<"}", "a">>, <<LF>>}
JsonObjects ==
    {<<"{">> \o Q(<<"k">>) \o <<":", "1", "}">>,
     <<"{">> \o Q(<<"k">>) \o <<":", "{", "}", "}">>,
     <<"{", LF>> \o Q(<<"k">>) \o <<":">> \o Q(<<"a">>) \o <<"}">>}
Embedded == {pre \o obj \o post : pre \in Prose, obj \in JsonObjects, post \in Prose}

Texts == SeqsUpTo(TextAlphabet, MaxTextLen) \cup Embedded \cup Responses

InitText ==
    /\ text \in Texts
    /\ op = {}
    /\ outExtract = Raised
    /\ outClean = <<>>
    /\ outEC = Raised
    /\ outCE = Raised
    /\ items = <<>>
    /\ pc = "start"
    /\ i = 1
    /\ content = <<>>
    /\ analysis = <<>>
    /\ parsed = Raised
    /\ codebook = <<>>
    /\ printedRaw = NoText
    /\ written = FALSE
    /\ reads = 0
    /\ calls = <<>>
    /\ outcomes = <<>>
    /\ stored = <<>>
    /\ payload = ObjV(<<>>)
    /\ df_rows = Raised

\* extract_json(text)
ApplyExtract ==
    /\ "extract" \notin op
    /\ outExtract' = extract_json(text)
    /\ op' = op \cup {"extract"}
    /\ UNCHANGED <<text, outClean, outEC, outCE>>
    /\ UNCHANGED pipeVars
    /\ UNCHANGED buildVars

\* clean_json_string(text)
ApplyClean ==
    /\ "clean" \notin op
    /\ outClean' = clean_json_string(text)
    /\ op' = op \cup {"clean"}
    /\ UNCHANGED <<text, outExtract, outEC, outCE>>
    /\ UNCHANGED pipeVars
    /\ UNCHANGED buildVars

\* Lines 126-127: clean_json_string(extract_json(text))
ApplyExtractThenClean ==
    /\ "ec" \notin op
    /\ outEC' = LET e == extract_json(text)
                IN  IF e.ok THEN Ok(clean_json_string(e.val)) ELSE Raised
    /\ op' = op \cup {"ec"}
    /\ UNCHANGED <<text, outExtract, outClean, outCE>>
    /\ UNCHANGED pipeVars
    /\ UNCHANGED buildVars

\* The two calls in the opposite order: extract_json(clean_json_string(text))
ApplyCleanThenExtract ==
    /\ "ce" \notin op
    /\ outCE' = extract_json(clean_json_string(text))
    /\ op' = op \cup {"ce"}
    /\ UNCHANGED <<text, outExtract, outClean, outEC>>
    /\ UNCHANGED pipeVars
    /\ UNCHANGED buildVars

NextText ==
    \/ ApplyExtract
    \/ ApplyClean
    \/ ApplyExtractThenClean
    \/ ApplyCleanThenExtract

SpecText == InitText /\ [][NextText]_vars

---------------------------------------------------------------------------
(* The row building loop applied to bounded payloads *)

MaxThemes == 2
MaxList == 3

\* The j-th label of a list: a letter followed by j primes.
Label(letter, j) == StrV(<<letter>> \o [x \in 1..j |-> "'"])
Labels(letter, n) == [j \in 1..n |-> Label(letter, j)]

\* Theme blocks with a name and two lists of any lengths up to MaxList.
ThemeBlocks ==
    {ObjV(<< <<K_theme, StrV(<<name>>)>>,
             <<K_codages, ArrV(Labels("c", nc))>>,
             <<K_verbatims, ArrV(Labels("v", nv))>> >>) :
        name \in {"T", "U"}, nc \in 0..MaxList, nv \in 0..MaxList}

Payloads ==
    {ObjV(<< <<K_themes, ArrV(themes)>> >>) : themes \in SeqsUpTo(ThemeBlocks, MaxThemes)}

InitBuild ==
    /\ payload \in Payloads
    /\ df_rows = Raised
    /\ text = <<>>
    /\ op = {}
    /\ outExtract = Raised
    /\ outClean = <<>>
    /\ outEC = Raised
    /\ outCE = Raised
    /\ items = <<>>
    /\ pc = "start"
    /\ i = 1
    /\ content = <<>>
    /\ analysis = <<>>
    /\ parsed = Raised
    /\ codebook = <<>>
    /\ printedRaw = NoText
    /\ written = FALSE
    /\ reads = 0
    /\ calls = <<>>
    /\ outcomes = <<>>
    /\ stored = <<>>

\* Lines 136-147 on payload.
ApplyBuild ==
    /\ ~df_rows.ok
    /\ df_rows' = BuildRows(payload)
    /\ UNCHANGED payload
    /\ UNCHANGED textVars
    /\ UNCHANGED <<items, pc, i, content, analysis, parsed, codebook, printedRaw,
                   written, reads, calls, outcomes, stored>>

NextBuild == ApplyBuild

SpecBuild == InitBuild /\ [][NextBuild]_vars

---------------------------------------------------------------------------
(* Properties of the run (specification Spec) *)

Last(q) == q[Len(q)]
Range(q) == {q[n] : n \in DOMAIN q}
AllWhitespace(c) == \A n \in DOMAIN c : c[n] \in {SP, LF, TAB, CR}

\* The response r yields no JSON text, or a text the decoder rejects.
ResponseFails(r) ==
    \/ ~extract_json(r).ok
    \/ ~json_loads(clean_json_string(extract_json(r).val)).ok

\* The try block has run on the response held in analysis, and the loop has
\* not moved on since.
Judged ==
    \/ pc \in {"build", "aborted"}
    \/ pc = "crashed" /\ Last(outcomes) = "crashed"

\* C1: a response that fails extraction or JSON parsing aborts the run at
\* once: the document it belongs to is the last one fetched and analysed, and
\* the spreadsheet is never written, whatever was processed before.
C1_MalformedAbortsRun ==
    /\ Judged => (ResponseFails(analysis) <=> pc = "aborted")
    /\ \A k \in DOMAIN outcomes :
          outcomes[k] = "malformed" =>
              /\ pc = "aborted"
              /\ k = Len(outcomes)
              /\ reads = k
              /\ i = k
              /\ Last(calls) = k
              /\ ~written

\* C1 witness: the second of three documents aborts the run after the first
\* was stored.
C1_Witness ==
    /\ Len(items) = 3
    /\ outcomes = <<"stored", "malformed">>
    /\ reads = 2
    /\ ~written

\* C2: a document whose text is empty or whitespace-only is skipped: no call
\* of the analysis service, no change of the codebook, no abort, and the loop
\* goes on with the next document (or ends normally after the last one).
C2_BlankDocumentSkipped ==
    [][(pc = "check" /\ AllWhitespace(content)) =>
          /\ calls' = calls
          /\ codebook' = codebook
          /\ stored' = stored
          /\ i' = i + 1
          /\ pc' = (IF i < Len(items) THEN "read" ELSE "write")]_vars

\* C2 witness: a whitespace-only first document was skipped and the second
\* document was then analysed and stored.
C2_Witness ==
    /\ outcomes = <<"skipped", "stored">>
    /\ calls = <<2>>
    /\ DOMAIN codebook # {}

\* The first 31 characters of a display name.
First31(name) == [n \in 1..(IF Len(name) < 31 THEN Len(name) ELSE 31) |-> name[n]]

\* C3: the codebook has one entry per 31-character prefix of the names of the
\* documents stored so far, each holding the table of the latest such
\* document, and no key is longer than 31 characters.
C3_CodebookLastWriteWins ==
    /\ DOMAIN codebook = {First31(stored[n].name) : n \in DOMAIN stored}
    /\ \A key \in DOMAIN codebook :
          /\ Len(key) <= 31
          /\ LET latest == Max({n \in DOMAIN stored : First31(stored[n].name) = key})
             IN  codebook[key] = stored[latest].table

\* C3 witness: three documents stored, the first two with different names and
\* tables but the same 31-character prefix: two entries.
C3_Witness ==
    /\ Len(stored) = 3
    /\ stored[1].name # stored[2].name
    /\ First31(stored[1].name) = First31(stored[2].name)
    /\ stored[1].table # stored[2].table
    /\ Cardinality(DOMAIN codebook) = 2

\* The value of a key that occurs exactly once in a decoded object.
Field(obj, key) ==
    (CHOOSE pr \in Range(obj.pairs) : pr[1] = key)[2]
HasField(obj, key) == \E pr \in Range(obj.pairs) : pr[1] = key

\* A decoded value of the expected shape: themes, each with a name and two
\* lists.
IsCodingPayload(data) ==
    /\ data.k = "obj"
    /\ HasField(data, K_themes)
    /\ Field(data, K_themes).k = "arr"
    /\ \A t \in Range(Field(data, K_themes).elems) :
          /\ t.k = "obj"
          /\ HasField(t, K_theme) /\ Field(t, K_theme).k = "str"
          /\ HasField(t, K_codages) /\ Field(t, K_codages).k = "arr"
          /\ HasField(t, K_verbatims) /\ Field(t, K_verbatims).k = "arr"

\* Number of rows of a theme block: the length of the shorter list.
PairCount(t) ==
    LET c == Len(Field(t, K_codages).elems)
        v == Len(Field(t, K_verbatims).elems)
    IN  IF c < v THEN c ELSE v

\* Number of rows of the first n theme blocks.
RECURSIVE RowsBefore(_, _)
RowsBefore(themes, n) ==
    IF n = 0 THEN 0 ELSE RowsBefore(themes, n - 1) + PairCount(themes[n])

\* C4: the table of a payload is the concatenation, in theme order, of the
\* rows (theme, codages[j], verbatims[j]) for j up to the length of the
\* shorter list, in increasing j; a theme with an empty list gives no row and
\* a payload without themes an empty table.
C4_TableIsPairedRows ==
    (df_rows.ok /\ IsCodingPayload(payload)) =>
    LET themes == Field(payload, K_themes).elems
    IN  /\ Len(df_rows.val) = RowsBefore(themes, Len(themes))
        /\ \A n \in DOMAIN themes : \A j \in 1..PairCount(themes[n]) :
              df_rows.val[RowsBefore(themes, n - 1) + j] =
                  [Theme    |-> Field(themes[n], K_theme),
                   Coding   |-> Field(themes[n], K_codages).elems[j],
                   Verbatim |-> Field(themes[n], K_verbatims).elems[j]]
        /\ (\A n \in DOMAIN themes :
               Field(themes[n], K_codages).elems = <<>>
               \/ Field(themes[n], K_verbatims).elems = <<>>) => df_rows.val = <<>>

\* C4 witness: a payload of two themes, the first with three codings and two
\* verbatims, the second with no coding and one verbatim, gave two rows.
C4_Witness ==
    /\ df_rows.ok
    /\ IsCodingPayload(payload)
    /\ LET themes == Field(payload, K_themes).elems
       IN  /\ Len(themes) = 2
           /\ Len(Field(themes[1], K_codages).elems) = 3
           /\ Len(Field(themes[1], K_verbatims).elems) = 2
           /\ Len(Field(themes[2], K_codages).elems) = 0
           /\ Len(Field(themes[2], K_verbatims).elems) = 1
    /\ Len(df_rows.val) = 2

\* The response r yields a decoded value of the expected shape.
RecoversPayload(r) ==
    /\ ~ResponseFails(r)
    /\ IsCodingPayload(json_loads(clean_json_string(extract_json(r).val)).val)

\* C7: whenever no coding payload can be recovered from a response, the
\* document ends as a malformed response with the raw response surfaced
\* unmodified, and in no other way.
C7_EveryFailureIsMalformedResponse ==
    (outcomes # <<>> /\ Last(outcomes) \in {"malformed", "crashed", "stored"}
        /\ pc \notin {"parse", "build"} /\ ~RecoversPayload(analysis)) =>
    /\ Last(outcomes) = "malformed"
    /\ printedRaw = analysis

\* C9: the analysis service is called once for each non-empty document
\* reached, never twice, in listing order, and a document is fetched only
\* when every earlier one has been dealt with.
C9_OneCallPerDocumentInOrder ==
    /\ \A a, b \in DOMAIN calls : a < b => calls[a] < calls[b]
    /\ Range(calls) \subseteq 1..reads
    /\ reads <= Len(items)
    /\ \A k \in DOMAIN outcomes : (outcomes[k] # "skipped") <=> (k \in Range(calls))
    /\ Len(outcomes) \in {reads - 1, reads}
    /\ pc = "read" => Len(outcomes) = reads /\ i = reads + 1
    /\ pc = "check" => i = reads /\ i \notin Range(calls)
    /\ pc \in {"parse", "build"} =>
          /\ ~AllWhitespace(content)
          /\ Last(calls) = i
          /\ i = reads
          /\ Len(outcomes) = reads - 1

\* C9 witness: of three documents the second was blank: calls for the first
\* and the third only.
C9_Witness ==
    /\ calls = <<1, 3>>
    /\ outcomes = <<"stored", "skipped", "stored">>

---------------------------------------------------------------------------
(* Properties of the text functions (specification SpecText) *)

Opens(t)  == {p \in DOMAIN t : t[p] = "{"}
Closes(t) == {p \in DOMAIN t : t[p] = "}"}

C6_CleanReplacesUnescapedNewlines ==
    "clean" \in op =>
        /\ Len(outClean) = Len(text)
        /\ \A p \in DOMAIN text :
              IF text[p] = LF /\ (p = 1 \/ text[p - 1] # BSL)
              THEN outClean[p] = SP
              ELSE outClean[p] = text[p]
        /\ (~\E p \in DOMAIN text : text[p] = LF /\ (p = 1 \/ text[p - 1] # BSL))
              => outClean = text

\* C6 witness: a text with an escaped and an unescaped newline.
C6_Witness ==
    /\ "clean" \in op
    /\ \E p \in DOMAIN text : p > 1 /\ text[p] = LF /\ text[p - 1] = BSL
    /\ \E p \in DOMAIN text : p > 1 /\ text[p] = LF /\ text[p - 1] # BSL
    /\ outClean # text

\* The spans of the text that are well-formed JSON objects.
ObjectSpans(t) ==
    {sp \in Opens(t) \X Closes(t) :
        /\ sp[1] < sp[2]
        /\ json_loads(SubSeq(t, sp[1], sp[2])).ok}
FirstObject(t) ==
    LET a == Min({sp[1] : sp \in ObjectSpans(t)})
        b == Min({sp[2] : sp \in {x \in ObjectSpans(t) : x[1] = a}})
    IN  SubSeq(t, a, b)

C10_ExtractAndCleanCommute ==
    {"ec", "ce"} \subseteq op => outEC = outCE

\* C10 witness: both orders applied to a text whose span holds an unescaped
\* newline, with another one outside the span.
C10_Witness ==
    /\ {"ec", "ce", "extract"} \subseteq op
    /\ outEC.ok
    /\ outEC.val # outExtract.val
    /\ text[1] = LF

====
